---- MODULE Spec2Model ----
(***************************************************************************)
(* renpy-img-prune: scan an images tree and a scripts tree, reconcile the  *)
(* image keys against the script references, review the unused files in a  *)
(* Tk window and delete the marked ones.                                   *)
(*                                                                         *)
(* Text is modelled as a sequence of one-character strings, a path as a    *)
(* sequence of components (each a text), so that stem, suffix, ordering    *)
(* and the regular expressions are computed and not assumed.               *)
(***************************************************************************)
EXTENDS Integers, Sequences, FiniteSets, TLC

(* ------------------------------ bounds --------------------------------- *)

\* Largest input set handed to file_utils.perform_safe_deletion.
MaxBatch == 3

\* Calls of file_utils.perform_safe_deletion in one behaviour.
MaxCalls == 2

(* ------------------------------- text ---------------------------------- *)

\* The characters used by the model, in code-point order (str comparison).
CodeOrder ==
  << "\n", " ", "\"", "%", "(", ")", "-", ".", "/",
     "0", "1", "2", "3", "4", "5", "6", "7", "8", "9", "=",
     "A", "B", "C", "D", "E", "F", "G", "H", "I", "J", "K", "L", "M",
     "N", "O", "P", "Q", "R", "S", "T", "U", "V", "W", "X", "Y", "Z",
     "\\", "_",
     "a", "b", "c", "d", "e", "f", "g", "h", "i", "j", "k", "l", "m",
     "n", "o", "p", "q", "r", "s", "t", "u", "v", "w", "x", "y", "z" >>

Ord(ch) == CHOOSE i \in 1..Len(CodeOrder) : CodeOrder[i] = ch

UpperLetters ==
  << "A", "B", "C", "D", "E", "F", "G", "H", "I", "J", "K", "L", "M",
     "N", "O", "P", "Q", "R", "S", "T", "U", "V", "W", "X", "Y", "Z" >>

LowerLetters ==
  << "a", "b", "c", "d", "e", "f", "g", "h", "i", "j", "k", "l", "m",
     "n", "o", "p", "q", "r", "s", "t", "u", "v", "w", "x", "y", "z" >>

Digits == { "0", "1", "2", "3", "4", "5", "6", "7", "8", "9" }

\* str.lower() on one character, and on a text.
LowerChar(ch) ==
  IF \E i \in 1..26 : UpperLetters[i] = ch
  THEN LowerLetters[CHOOSE i \in 1..26 : UpperLetters[i] = ch]
  ELSE ch

LowerNoFold(s) == s

Lower(s) == [ i \in 1..Len(s) |-> LowerChar(s[i]) ]

\* \s of the re module, on the characters of the model.
IsSpace(ch) == ch \in { " ", "\n" }

\* \w of the re module.
IsWord(ch) ==
  \/ ch \in Digits
  \/ ch = "_"
  \/ \E i \in 1..26 : ch \in { UpperLetters[i], LowerLetters[i] }

\* str.strip(): leading and trailing white space removed.
RECURSIVE LStrip(_)
LStrip(s) == IF s # <<>> /\ IsSpace(Head(s)) THEN LStrip(Tail(s)) ELSE s

RECURSIVE RStrip(_)
RStrip(s) ==
  IF s # <<>> /\ IsSpace(s[Len(s)]) THEN RStrip(SubSeq(s, 1, Len(s) - 1)) ELSE s

Strip(s) == RStrip(LStrip(s))

\* str.replace('\\', '/')
ReplaceBackslash(s) == [ i \in 1..Len(s) |-> IF s[i] = "\\" THEN "/" ELSE s[i] ]

\* str.__lt__: lexicographic by code point, a proper prefix is smaller.
RECURSIVE StrLess(_, _)
StrLess(s, t) ==
  IF t = <<>> THEN FALSE
  ELSE IF s = <<>> THEN TRUE
  ELSE IF Head(s) = Head(t) THEN StrLess(Tail(s), Tail(t))
  ELSE Ord(Head(s)) < Ord(Head(t))

(* ------------------------------- paths --------------------------------- *)

\* PurePath.__lt__: the parts compared as a list of strings.
RECURSIVE PathLess(_, _)
PathLess(p, q) ==
  IF q = <<>> THEN FALSE
  ELSE IF p = <<>> THEN TRUE
  ELSE IF Head(p) = Head(q) THEN PathLess(Tail(p), Tail(q))
  ELSE StrLess(Head(p), Head(q))

RECURSIVE SortedPathsDescending(_)
SortedPathsDescending(S) ==
  IF S = {} THEN <<>>
  ELSE LET m == CHOOSE x \in S : \A y \in S : x = y \/ PathLess(y, x)
       IN  <<m>> \o SortedPathsDescending(S \ {m})

\* sorted(list(S)) for a set of paths.
RECURSIVE SortedPaths(_)
SortedPaths(S) ==
  IF S = {} THEN <<>>
  ELSE LET m == CHOOSE x \in S : \A y \in S : x = y \/ PathLess(x, y)
       IN  <<m>> \o SortedPaths(S \ {m})

\* PurePath.parent (of a path with at least one component).
Parent(p) == IF p = <<>> THEN <<>> ELSE SubSeq(p, 1, Len(p) - 1)

\* PurePath.parents: every proper ancestor, the root included.
Parents(p) == { SubSeq(p, 1, n) : n \in 0..(Len(p) - 1) }

\* PurePath.name
Name(p) == IF p = <<>> THEN <<>> ELSE p[Len(p)]

\* The position of the last "." of a name, 0 when it has none (str.rfind).
RECURSIVE RFindDot(_, _)
RFindDot(name, i) ==
  IF i = 0 THEN 0
  ELSE IF name[i] = "." THEN i
  ELSE RFindDot(name, i - 1)

\* PurePath.suffix on a name: the last "." and what follows it, unless the
\* "." is the first or the last character of the name.
SuffixOf(name) ==
  LET i == RFindDot(name, Len(name))
  IN  IF 1 < i /\ i < Len(name) THEN SubSeq(name, i, Len(name)) ELSE <<>>

\* PurePath.stem on a name.
StemOf(name) ==
  LET i == RFindDot(name, Len(name))
  IN  IF 1 < i /\ i < Len(name) THEN SubSeq(name, 1, i - 1) ELSE name

Suffix(p) == SuffixOf(Name(p))
Stem(p)   == StemOf(Name(p))

\* PurePosixPath.as_posix() of an absolute path: "/" before every component.
RECURSIVE AsPosix(_)
AsPosix(p) ==
  IF p = <<>> THEN <<>> ELSE <<"/">> \o Head(p) \o AsPosix(Tail(p))

\* The components of a text split at "/"; empty components and "." are
\* dropped, as the PurePosixPath constructor does.
RECURSIVE SplitParts(_, _)
SplitParts(s, cur) ==
  LET keep == IF cur = <<>> \/ cur = <<".">> THEN <<>> ELSE <<cur>>
  IN  IF s = <<>> THEN keep
      ELSE IF Head(s) = "/" THEN keep \o SplitParts(Tail(s), <<>>)
      ELSE SplitParts(Tail(s), Append(cur, Head(s)))

\* Path(text): the components, and whether the text is rooted.
PathOf(s) == SplitParts(s, <<>>)
IsRooted(s) == s # <<>> /\ Head(s) = "/"

\* as_posix() of a relative path: the components joined by "/".
RECURSIVE JoinParts(_)
JoinParts(p) ==
  IF p = <<>> THEN <<>>
  ELSE IF Len(p) = 1 THEN Head(p)
  ELSE Head(p) \o <<"/">> \o JoinParts(Tail(p))

(* --------------------------- the file system --------------------------- *)

D_PROJ    == << <<"p", "r", "o", "j">> >>
D_GAME    == D_PROJ \o << <<"g", "a", "m", "e">> >>
D_IMAGES  == D_GAME \o << <<"i", "m", "a", "g", "e", "s">> >>
D_C       == D_IMAGES \o << <<"c">> >>
D_SCRIPTS == D_GAME \o << <<"s", "c", "r", "i", "p", "t", "s">> >>
D_OTHER   == D_PROJ \o << <<"o", "t", "h", "e", "r">> >>
D_NOPE    == << <<"n", "o", "p", "e">> >>

F_A    == D_IMAGES \o << <<"a", ".", "p", "n", "g">> >>
F_B    == D_IMAGES \o << <<"b", ".", "p", "n", "g">> >>
F_SUB  == D_C \o << <<"s", "u", "b", ".", "p", "n", "g">> >>
F_A2   == D_C \o << <<"a", ".", "P", "N", "G">> >>
F_TXT  == D_IMAGES \o << <<"n", "o", "t", "e", "s", ".", "t", "x", "t">> >>
F_LINK == D_IMAGES \o << <<"l", "i", "n", "k", ".", "p", "n", "g">> >>
F_OUT  == D_OTHER \o << <<"x", ".", "p", "n", "g">> >>
F_AJ   == D_IMAGES \o << <<"a", ".", "j", "p", "g">> >>
F_NOEXT == D_IMAGES \o << <<"R", "E", "A", "D", "M", "E">> >>

R_MAIN == D_GAME \o << <<"s", "c", "r", "i", "p", "t", ".", "r", "p", "y">> >>
R_CH1  == D_SCRIPTS \o << <<"c", "h", "1", ".", "r", "p", "y">> >>

DirEntries  == { D_PROJ, D_GAME, D_IMAGES, D_C, D_SCRIPTS, D_OTHER }
LinkEntries == { F_LINK }
ScriptEntries == { R_MAIN, R_CH1 }

\* The target of a symbolic link (absolute).
LinkTarget(p) == F_OUT

\* Path.resolve(): the components walked left to right, a prefix that is an
\* existing symbolic link replaced by its target; what does not exist is kept.
RECURSIVE ResolveFrom(_, _, _)
ResolveFrom(done, rest, f) ==
  IF rest = <<>> THEN done
  ELSE LET cur == Append(done, Head(rest))
       IN  IF cur \in f /\ cur \in LinkEntries
           THEN ResolveFrom(<<>>, LinkTarget(cur) \o Tail(rest), f)
           ELSE ResolveFrom(cur, Tail(rest), f)

Resolve(p, f) == ResolveFrom(<<>>, p, f)

IsDirAlways(p, f) == TRUE

\* Path.exists() / is_dir() / is_file(): symbolic links are followed.
Exists(p, f) == Resolve(p, f) \in f
IsDir(p, f)  == Exists(p, f) /\ Resolve(p, f) \in DirEntries
IsFile(p, f) == Exists(p, f) /\ Resolve(p, f) \notin DirEntries

\* Path.unlink() can succeed only on an existing entry that is no directory.
CanUnlink(p, f) == p \in f /\ p \notin DirEntries

(* ----------------- config: the patterns, as re runs them -------------- *)

\* Set of image file extensions to look for (lowercase).
IMAGE_EXTENSIONS ==
  { <<".", "p", "n", "g">>, <<".", "j", "p", "g">>,
    <<".", "j", "p", "e", "g">>, <<".", "a", "v", "i", "f">>,
    <<".", "w", "e", "b", "p">>, <<".", "s", "v", "g">> }

\* [\w/-]
IsNameChar(ch) == IsWord(ch) \/ ch \in { "/", "-" }

\* Greedy \s* and [\w/-]* from position i: the first position they do not take.
RECURSIVE SkipSpaces(_, _)
SkipSpaces(c, i) ==
  IF i <= Len(c) /\ IsSpace(c[i]) THEN SkipSpaces(c, i + 1) ELSE i

RECURSIVE SkipName(_, _)
SkipName(c, i) ==
  IF i <= Len(c) /\ IsNameChar(c[i]) THEN SkipName(c, i + 1) ELSE i

\* A literal word at position i, under re.IGNORECASE.
HasWordAt(c, i, w) ==
  /\ i + Len(w) - 1 <= Len(c)
  /\ Lower(SubSeq(c, i, i + Len(w) - 1)) = w

\* Where greedy .* stops: the next line break, or the end of the text.
RECURSIVE LineEnd(_, _)
LineEnd(c, i) ==
  IF i > Len(c) \/ c[i] = "\n" THEN i ELSE LineEnd(c, i + 1)

\* Lazy .*?" from position i: the first quote before the line ends, else 0.
RECURSIVE ClosingQuote(_, _)
ClosingQuote(c, i) ==
  IF i > Len(c) \/ c[i] = "\n" THEN 0
  ELSE IF c[i] = "\"" THEN i
  ELSE ClosingQuote(c, i + 1)

\* ^ under re.MULTILINE.
AtLineStart(c, i) == i = 1 \/ c[i - 1] = "\n"

NoMatch == [ ok |-> FALSE, key |-> <<>>, end |-> 0 ]
Match(c, from, to, end) == [ ok |-> TRUE, key |-> SubSeq(c, from, to - 1), end |-> end ]

W_show  == <<"s", "h", "o", "w">>
W_scene == <<"s", "c", "e", "n", "e">>
W_image == <<"i", "m", "a", "g", "e">>
W_auto  == <<"a", "u", "t", "o">>
W_hover == <<"h", "o", "v", "e", "r">>
W_imagebutton == <<"i", "m", "a", "g", "e", "b", "u", "t", "t", "o", "n">>

\* SHOW_SCENE_PATTERN  ^\s*(?:show|scene)\s+([\w\/-]+)(?:\s+.*)?$  matched at
\* position i. \s takes line breaks too: after a name that ends its line the
\* optional group takes the line break and the whole next line.
SHOW_SCENE_PATTERN(c, i) ==
  LET j1 == SkipSpaces(c, i)
      kw == IF HasWordAt(c, j1, W_show) THEN Len(W_show)
            ELSE IF HasWordAt(c, j1, W_scene) THEN Len(W_scene)
            ELSE 0
      j2 == j1 + kw
      j3 == SkipSpaces(c, j2)
      j4 == SkipName(c, j3)
  IN  IF ~AtLineStart(c, i) \/ kw = 0 \/ j3 = j2 \/ j4 = j3 THEN NoMatch
      ELSE IF j4 > Len(c) THEN Match(c, j3, j4, j4)
      ELSE IF IsSpace(c[j4]) THEN Match(c, j3, j4, LineEnd(c, SkipSpaces(c, j4)))
      ELSE NoMatch

DefineImageNeverMatches(c, i) == NoMatch

\* DEFINE_IMAGE_PATTERN  ^\s*image\s+([\w\/-]+)\s*=\s*".*?"  matched at i.
DEFINE_IMAGE_PATTERN(c, i) ==
  LET j1 == SkipSpaces(c, i)
      j2 == j1 + Len(W_image)
      j3 == SkipSpaces(c, j2)
      j4 == SkipName(c, j3)
      j5 == SkipSpaces(c, j4)
      j6 == SkipSpaces(c, j5 + 1)
      j7 == ClosingQuote(c, j6 + 1)
  IN  IF /\ AtLineStart(c, i)
         /\ HasWordAt(c, j1, W_image)
         /\ j3 > j2
         /\ j4 > j3
         /\ j5 <= Len(c) /\ c[j5] = "="
         /\ j6 <= Len(c) /\ c[j6] = "\""
         /\ j7 # 0
      THEN Match(c, j3, j4, j7 + 1)
      ELSE NoMatch

\* IMAGEBUTTON_PATTERN  imagebutton\s+(?:auto\s+)?(?:hover\s*)?"(.*?)"  at i.
IMAGEBUTTON_PATTERN(c, i) ==
  LET j2 == i + Len(W_imagebutton)
      j3 == SkipSpaces(c, j2)
      a  == j3 + Len(W_auto)
      j4 == IF HasWordAt(c, j3, W_auto) /\ SkipSpaces(c, a) > a
            THEN SkipSpaces(c, a) ELSE j3
      j5 == IF HasWordAt(c, j4, W_hover)
            THEN SkipSpaces(c, j4 + Len(W_hover)) ELSE j4
      j6 == ClosingQuote(c, j5 + 1)
  IN  IF /\ HasWordAt(c, i, W_imagebutton)
         /\ j3 > j2
         /\ j5 <= Len(c) /\ c[j5] = "\""
         /\ j6 # 0
      THEN Match(c, j5 + 1, j6, j6 + 1)
      ELSE NoMatch

\* re.finditer: the group(1) of the matches, leftmost first, the search going
\* on where the match before it ended.
RECURSIVE ShowSceneFindIter(_, _)
ShowSceneFindIter(c, pos) ==
  IF pos > Len(c) THEN <<>>
  ELSE LET m == SHOW_SCENE_PATTERN(c, pos)
       IN  IF m.ok THEN <<m.key>> \o ShowSceneFindIter(c, m.end)
           ELSE ShowSceneFindIter(c, pos + 1)

RECURSIVE DefineImageFindIter(_, _)
DefineImageFindIter(c, pos) ==
  IF pos > Len(c) THEN <<>>
  ELSE LET m == DEFINE_IMAGE_PATTERN(c, pos)
       IN  IF m.ok THEN <<m.key>> \o DefineImageFindIter(c, m.end)
           ELSE DefineImageFindIter(c, pos + 1)

RECURSIVE ImagebuttonFindIter(_, _)
ImagebuttonFindIter(c, pos) ==
  IF pos > Len(c) THEN <<>>
  ELSE LET m == IMAGEBUTTON_PATTERN(c, pos)
       IN  IF m.ok THEN <<m.key>> \o ImagebuttonFindIter(c, m.end)
           ELSE ImagebuttonFindIter(c, pos + 1)

KeepPlaceholders(s) == s

\* re.sub(r'%.', '', s): a "%" and the character after it (no line break) go.
RECURSIVE StripPlaceholders(_)
StripPlaceholders(s) ==
  IF s = <<>> THEN <<>>
  ELSE IF Head(s) = "%" /\ Len(s) >= 2 /\ s[2] # "\n"
       THEN StripPlaceholders(Tail(Tail(s)))
       ELSE <<Head(s)>> \o StripPlaceholders(Tail(s))

\* Path(base_path).with_suffix('').as_posix() on a POSIX build: ValueError for
\* a path with an empty name, else the last component loses its suffix.
WithSuffixEmptyAsPosix(base_path) ==
  LET parts == PathOf(base_path)
      front == IF IsRooted(base_path) THEN <<"/">> ELSE <<>>
  IN  IF parts = <<>>
      THEN [ raised |-> TRUE, text |-> <<>> ]
      ELSE [ raised |-> FALSE,
             text |-> front \o JoinParts(SubSeq(parts, 1, Len(parts) - 1)
                                         \o << StemOf(parts[Len(parts)]) >>) ]

(* ------------------------------ the state ------------------------------ *)

VARIABLES
  \* the environment
  fs,                    \* the directory entries that exist
  script_text,           \* the text of each script file
  undecodable,           \* the script files whose open() or read() raises
  user_input,            \* what the user types at the three prompts
  ext_removed,           \* the files another process removed during the review
  \* main.run_analysis
  pc,                    \* where run_analysis is
  script_dir,
  images_dir,
  all_image_paths,
  all_image_names,
  used_image_references,
  unused_stems,
  \* gui_viewer.UnusedImageViewer
  unused_files,
  current_index,
  files_to_delete,
  delete_var,
  checkbox_state,        \* state of delete_checkbox: "normal" | "disabled"
  commit_state,          \* state of commit_delete_button
  prev_state,            \* state of prev_nav_button
  next_state,            \* state of next_nav_button
  keys_bound,            \* the navigation and marking keys are bound
  image_label,           \* what image_label shows
  after_queue,           \* the callbacks scheduled with master.after
  dialog,                \* the message box that is open, "none" when none
  gv_result,             \* what gui_viewer.perform_safe_deletion returned
  unlinked,              \* the paths the viewer's deletion has unlinked
  \* file_utils.perform_safe_deletion
  fu_pc,                 \* "idle" | "loop" | "returned"
  fu_calls,              \* calls made so far
  fu_files_to_delete,    \* the argument files_to_delete
  base_images_dir_abs,   \* base_images_dir.resolve()
  files_to_process,      \* sorted(list(files_to_delete))
  fu_next,               \* position of the for loop in files_to_process
  deleted_count,
  error_count,
  fu_log,                \* one record per path the loop has finished
  fu_result              \* the returned tuple

input_vars == << script_text, undecodable, user_input >>

run_vars == << pc, script_dir, images_dir, all_image_paths, all_image_names,
               used_image_references, unused_stems >>

fu_vars == << fu_pc, fu_calls, fu_files_to_delete, base_images_dir_abs,
              files_to_process, fu_next, deleted_count, error_count,
              fu_log, fu_result >>

gv_vars == << unused_files, current_index, files_to_delete, delete_var,
              checkbox_state, commit_state, prev_state, next_state,
              keys_bound, image_label, after_queue, dialog, gv_result,
              unlinked >>

vars == << fs, ext_removed, input_vars, run_vars, gv_vars, fu_vars >>

\* The value None: no path has an empty component.
None == << <<>> >>

\* No user input, run_analysis not started, no viewer, no call under way.
NoInput ==
  /\ ext_removed = {}
  /\ script_text = [ r \in ScriptEntries |-> <<>> ]
  /\ undecodable = {}
  /\ user_input = [ project_dir_input |-> <<>>, images_dir_input |-> <<>>,
                    script_dir_input |-> <<>> ]

NoViewer ==
  /\ unused_files = <<>>
  /\ current_index = 0
  /\ files_to_delete = {}
  /\ delete_var = FALSE
  /\ checkbox_state = "normal"
  /\ commit_state = "normal"
  /\ prev_state = "normal"
  /\ next_state = "normal"
  /\ keys_bound = FALSE
  /\ image_label = [ kind |-> "none", file |-> <<>> ]
  /\ after_queue = {}
  /\ dialog = "none"
  /\ gv_result = <<>>
  /\ unlinked = {}

NoRun ==
  /\ script_dir = None
  /\ images_dir = None
  /\ all_image_paths = {}
  /\ all_image_names = {}
  /\ used_image_references = {}
  /\ unused_stems = {}

NoCall ==
  /\ fu_pc = "idle"
  /\ fu_calls = 0
  /\ fu_files_to_delete = {}
  /\ base_images_dir_abs = <<>>
  /\ files_to_process = <<>>
  /\ fu_next = 1
  /\ deleted_count = 0
  /\ error_count = 0
  /\ fu_log = <<>>
  /\ fu_result = <<>>

(* --------------------- file_utils.get_image_names ----------------------- *)

RGlobChildren(dir, f) == { p \in f : Parent(p) = dir }

\* images_dir.rglob("*"): every entry below the directory.
RGlobAll(dir, f) == { p \in f : dir \in Parents(p) }

\* get_image_names: the bare empty set for a missing directory, else the pair
\* (image_paths, image_names).
get_image_names(dir, f) ==
  IF ~IsDir(dir, f)
  THEN [ pair |-> FALSE, image_paths |-> {}, image_names |-> {} ]
  ELSE LET found == { filepath \in RGlobAll(dir, f) :
                        /\ IsFile(filepath, f)
                        /\ Lower(Suffix(filepath)) \in IMAGE_EXTENSIONS }
       IN  [ pair |-> TRUE,
             image_paths |-> { AsPosix(filepath) : filepath \in found },
             image_names |-> { Stem(filepath) : filepath \in found } ]

(* ---------------- script_parser.extract_image_references ---------------- *)

\* script_dir.rglob('*.rpy')
MatchesRpy(name) ==
  /\ Len(name) >= 4
  /\ SubSeq(name, Len(name) - 3, Len(name)) = <<".", "r", "p", "y">>

RGlobRpy(dir, f) == { p \in RGlobAll(dir, f) : MatchesRpy(Name(p)) }

\* The keys the show/scene loop and the image loop add for one text.
ShowSceneKeys(content) ==
  LET m == ShowSceneFindIter(content, 1)
  IN  { ReplaceBackslash(Strip(m[i])) : i \in DOMAIN m }

DefineImageKeys(content) ==
  LET m == DefineImageFindIter(content, 1)
  IN  { ReplaceBackslash(Strip(m[i])) : i \in DOMAIN m }

\* The imagebutton loop over the matches from the k-th on: a ValueError of
\* with_suffix leaves the loop and the file (the except clause of the file).
RECURSIVE ImagebuttonKeysFrom(_, _)
ImagebuttonKeysFrom(m, k) ==
  IF k > Len(m) THEN {}
  ELSE LET path_pattern == Strip(m[k])
           base_path    == Strip(StripPlaceholders(path_pattern))
           no_ext       == WithSuffixEmptyAsPosix(base_path)
       IN  IF no_ext.raised THEN {}
           ELSE (IF no_ext.text # <<>> THEN { no_ext.text } ELSE {})
                \cup ImagebuttonKeysFrom(m, k + 1)

ImagebuttonKeys(content) ==
  ImagebuttonKeysFrom(ImagebuttonFindIter(content, 1), 1)

\* What one script file adds to used_image_references.
FileReferences(filepath, text, bad) ==
  IF filepath \in bad THEN {}
  ELSE ShowSceneKeys(text[filepath]) \cup DefineImageKeys(text[filepath])
       \cup ImagebuttonKeys(text[filepath])

\* The orders in which rglob may yield a set of files.
Orders(S) ==
  { order \in [ 1..Cardinality(S) -> S ] :
      \A i, j \in 1..Cardinality(S) : i # j => order[i] # order[j] }

AccumulateLastWins(acc, keys) == keys

\* used_image_references.add(...): the keys of a file join those found so far.
Accumulate(acc, keys) == acc \cup keys

RemainingAfterAbort(order, bad) ==
  IF Head(order) \in bad THEN <<>> ELSE Tail(order)

\* The try statement is inside the for loop: after a file, read or not, the
\* loop goes on with the files that rglob has still to yield.
RemainingAfter(order, bad) == Tail(order)

\* The for loop over the script files, in the order rglob yields them.
RECURSIVE ExtractLoop(_, _, _, _)
ExtractLoop(order, acc, text, bad) ==
  IF order = <<>> THEN acc
  ELSE ExtractLoop(RemainingAfter(order, bad),
                   Accumulate(acc, FileReferences(Head(order), text, bad)),
                   text, bad)

\* extract_image_references, for the order in which rglob yields the files.
extract_image_references(dir, f, text, bad, order) ==
  IF ~IsDir(dir, f) THEN {}
  ELSE ExtractLoop(order, {}, text, bad)

(* -------------------- gui_viewer.UnusedImageViewer ---------------------- *)

\* Callbacks waiting in master.after.
CB_load_image          == << "load_image" >>
CB_load_image_if_ready == << "_load_image_if_ready" >>
CB_load_image_task(filepath) == << "_load_image_task", filepath >>

Label(kind, filepath) == [ kind |-> kind, file |-> filepath ]

ButtonState(enabled) == IF enabled THEN "normal" ELSE "disabled"

\* _update_status: the checkbox variable and the widget states it sets.
UpdateStatus(uf, ci, ftd) ==
  LET list_len == Len(uf)
  IN  IF list_len = 0 \/ ci >= list_len
      THEN [ delete_var |-> FALSE, checkbox |-> "disabled",
             prev |-> "disabled", next |-> "disabled",
             commit |-> ButtonState(ftd # {}) ]
      ELSE [ delete_var |-> uf[ci + 1] \in ftd, checkbox |-> "normal",
             prev |-> ButtonState(ci > 0),
             next |-> ButtonState(ci # list_len - 1),
             commit |-> ButtonState(ftd # {}) ]

SetStatus(st) ==
  /\ delete_var' = st.delete_var
  /\ checkbox_state' = st.checkbox
  /\ prev_state' = st.prev
  /\ next_state' = st.next
  /\ commit_state' = st.commit

\* load_image: the index brought into range, the label set, the status
\* updated and _load_image_task scheduled for the file at the index.
LoadImage(uf, ci, ftd, queue) ==
  IF uf = <<>>
  THEN [ ci |-> ci, label |-> Label("empty", <<>>),
         status |-> UpdateStatus(uf, ci, ftd), queue |-> queue ]
  ELSE LET hi       == IF ci >= Len(uf) THEN Len(uf) - 1 ELSE ci
           idx      == IF hi < 0 THEN 0 ELSE hi
           filepath == uf[idx + 1]
       IN  [ ci |-> idx, label |-> Label("loading", filepath),
             status |-> UpdateStatus(uf, idx, ftd),
             queue |-> queue \cup { CB_load_image_task(filepath) } ]

ApplyLoad(r) ==
  /\ current_index' = r.ci
  /\ image_label' = r.label
  /\ SetStatus(r.status)
  /\ after_queue' = r.queue

\* UnusedImageViewer.__init__ for a set of files that is not empty.
ViewerInit(files) ==
  /\ unused_files' = SortedPaths(files)
  /\ current_index' = 0
  /\ files_to_delete' = {}
  /\ delete_var' = FALSE
  /\ checkbox_state' = "normal"
  /\ commit_state' = "normal"
  /\ prev_state' = "normal"
  /\ next_state' = "normal"
  /\ keys_bound' = TRUE
  /\ image_label' = Label("loading", <<>>)
  /\ after_queue' = { CB_load_image }
  /\ dialog' = "none"
  /\ UNCHANGED << gv_result, unlinked >>

(* --------------------------- main.run_analysis -------------------------- *)

\* Directory names commonly used for scripts in Ren'Py projects.
SCRIPT_DIR_NAMES ==
  << <<"g", "a", "m", "e">>, <<"s", "c", "r", "i", "p", "t">>,
     <<"s", "c", "r", "i", "p", "t", "s">> >>

\* find_project_paths: the pair (script_dir, images_dir).
find_project_paths(base_dir, f) ==
  LET game_dir == Append(base_dir, <<"g", "a", "m", "e">>)
      good == { k \in DOMAIN SCRIPT_DIR_NAMES :
                  /\ IsDir(Append(game_dir, SCRIPT_DIR_NAMES[k]), f)
                  /\ RGlobRpy(Append(game_dir, SCRIPT_DIR_NAMES[k]), f) # {} }
      found == IF good # {}
               THEN Append(game_dir,
                           SCRIPT_DIR_NAMES[CHOOSE k \in good : \A j \in good : k <= j])
               ELSE IF RGlobRpy(game_dir, f) # {} THEN game_dir
               ELSE None
      potential_images_dir == Append(game_dir, <<"i", "m", "a", "g", "e", "s">>)
  IN  IF ~IsDir(game_dir, f) THEN << None, None >>
      ELSE IF found = None THEN << None, None >>
      ELSE IF IsDir(potential_images_dir, f) THEN << found, potential_images_dir >>
      ELSE << None, None >>

\* get_paths_from_user: the pair (script_dir, images_dir).
get_paths_from_user(inp, f) ==
  LET i_dir == Resolve(PathOf(Strip(inp.images_dir_input)), f)
      s_dir == Resolve(PathOf(Strip(inp.script_dir_input)), f)
  IN  IF IsDir(i_dir, f) /\ IsDir(s_dir, f) THEN << s_dir, i_dir >>
      ELSE << None, None >>

\* The prompt of run_analysis and the validation of the two directories.
AskPaths ==
  /\ pc = "start"
  /\ LET project_dir_input == Strip(user_input.project_dir_input)
         project_dir == Resolve(PathOf(project_dir_input), fs)
         pair == IF project_dir_input = <<"1">>
                 THEN get_paths_from_user(user_input, fs)
                 ELSE IF IsDir(project_dir, fs)
                      THEN find_project_paths(project_dir, fs)
                      ELSE << None, None >>
     IN  IF pair[1] = None \/ pair[2] = None
         THEN pc' = "exit" /\ UNCHANGED << script_dir, images_dir >>
         ELSE IF ~IsDir(pair[1], fs) \/ ~IsDir(pair[2], fs)
         THEN pc' = "exit" /\ UNCHANGED << script_dir, images_dir >>
         ELSE /\ pc' = "scan_images"
              /\ script_dir' = pair[1]
              /\ images_dir' = pair[2]
  /\ UNCHANGED << fs, ext_removed, input_vars, all_image_paths, all_image_names,
                  used_image_references, unused_stems, gv_vars, fu_vars >>

\* all_image_paths, all_image_names = get_image_names(images_dir)
ScanImages ==
  /\ pc = "scan_images"
  /\ LET r == get_image_names(images_dir, fs)
     IN  IF r.pair
         THEN /\ all_image_paths' = r.image_paths
              /\ all_image_names' = r.image_names
              /\ pc' = "scan_scripts"
         ELSE \* the empty set does not unpack into two names
              /\ pc' = "raised"
              /\ UNCHANGED << all_image_paths, all_image_names >>
  /\ UNCHANGED << fs, ext_removed, input_vars, script_dir, images_dir,
                  used_image_references, unused_stems, gv_vars, fu_vars >>

\* Another process removes the images directory, with all it holds, after
\* run_analysis has validated it and before get_image_names looks at it.
ImagesDirVanishes ==
  /\ pc = "scan_images"
  /\ images_dir \in fs
  /\ LET gone == { p \in fs : p = images_dir \/ images_dir \in Parents(p) }
     IN  /\ fs' = fs \ gone
         /\ ext_removed' = gone
  /\ UNCHANGED << input_vars, run_vars, gv_vars, fu_vars >>

\* used_image_references = extract_image_references(script_dir)
ScanScripts ==
  /\ pc = "scan_scripts"
  /\ \E order \in Orders(RGlobRpy(script_dir, fs)) :
       used_image_references' =
         extract_image_references(script_dir, fs, script_text, undecodable,
                                  order)
  /\ pc' = "reconcile"
  /\ UNCHANGED << fs, ext_removed, input_vars, script_dir, images_dir, all_image_paths,
                  all_image_names, unused_stems, gv_vars, fu_vars >>

UnusedStemsNoDifference(names, refs) == names

\* unused_stems = all_image_names.difference(used_image_references)
UnusedStems(names, refs) == names \ refs

UnusedFilesPathsAll(paths, stems) == { PathOf(path) : path \in paths }

UnusedFilesPathsOnePerStem(paths, stems) ==
  { PathOf(CHOOSE q \in paths : Stem(PathOf(q)) = k) : k \in stems }

\* unused_files_paths: the paths whose stem is in unused_stems.
UnusedFilesPaths(paths, stems) ==
  { PathOf(path) : path \in { q \in paths : Stem(PathOf(q)) \in stems } }

\* The reconciliation, and the launch of the reviewer when something is unused.
Reconcile ==
  /\ pc = "reconcile"
  /\ unused_stems' = UnusedStems(all_image_names, used_image_references)
  /\ IF unused_stems' = {}
     THEN pc' = "done" /\ UNCHANGED gv_vars
     ELSE /\ pc' = "review"
          /\ ViewerInit(UnusedFilesPaths(all_image_paths, unused_stems'))
  /\ UNCHANGED << fs, ext_removed, input_vars, script_dir, images_dir, all_image_paths,
                  all_image_names, used_image_references, fu_vars >>

(* ------------------ gui_viewer: the event handlers ---------------------- *)

\* What no handler of the viewer touches.
outside_viewer == << ext_removed, input_vars, script_dir, images_dir,
                    all_image_paths, all_image_names, used_image_references,
                    unused_stems, fu_vars >>

\* The main window takes user events: it is open and no message box is up.
Interactive == pc = "review" /\ dialog = "none"

\* next_image, from the ">" button or the Right / Page Down key.
NextImage ==
  /\ Interactive
  /\ keys_bound \/ next_state = "normal"
  /\ IF unused_files = <<>> \/ current_index >= Len(unused_files) - 1
     THEN UNCHANGED << current_index, image_label, delete_var, checkbox_state,
                       prev_state, next_state, commit_state, after_queue >>
     ELSE ApplyLoad(LoadImage(unused_files, current_index + 1,
                              files_to_delete, after_queue))
  /\ UNCHANGED << fs, pc, unused_files, files_to_delete, keys_bound, dialog,
                  gv_result, unlinked, outside_viewer >>

\* prev_image, from the "<" button or the Left / Page Up key.
PrevImage ==
  /\ Interactive
  /\ keys_bound \/ prev_state = "normal"
  /\ IF unused_files = <<>> \/ current_index <= 0
     THEN UNCHANGED << current_index, image_label, delete_var, checkbox_state,
                       prev_state, next_state, commit_state, after_queue >>
     ELSE ApplyLoad(LoadImage(unused_files, current_index - 1,
                              files_to_delete, after_queue))
  /\ UNCHANGED << fs, pc, unused_files, files_to_delete, keys_bound, dialog,
                  gv_result, unlinked, outside_viewer >>

\* _toggle_delete_mark: the checkbox was clicked (or invoked by Space or
\* Delete), which has already flipped delete_var.
ToggleDeleteMark ==
  /\ Interactive
  /\ checkbox_state = "normal"
  /\ LET is_marked_now == ~delete_var
     IN  IF unused_files = <<>> \/ current_index >= Len(unused_files)
         THEN /\ delete_var' = is_marked_now
              /\ UNCHANGED << files_to_delete, checkbox_state, prev_state,
                              next_state, commit_state >>
         ELSE LET current_file == unused_files[current_index + 1]
                  marked == IF is_marked_now
                            THEN files_to_delete \cup { current_file }
                            ELSE files_to_delete \ { current_file }
              IN  /\ files_to_delete' = marked
                  /\ SetStatus(UpdateStatus(unused_files, current_index, marked))
  /\ UNCHANGED << fs, pc, unused_files, current_index, keys_bound, image_label,
                  after_queue, dialog, gv_result, unlinked, outside_viewer >>

\* The first lines of _prompt_and_perform_deletion: the message box it opens.
PromptDialog == IF files_to_delete = {} THEN "noaction" ELSE "confirm"

\* commit_deletions, from the "Delete Marked" button.
CommitDeletions ==
  /\ Interactive
  /\ commit_state = "normal"
  /\ dialog' = PromptDialog
  /\ UNCHANGED << fs, pc, unused_files, current_index, files_to_delete,
                  delete_var, checkbox_state, commit_state, prev_state,
                  next_state, keys_bound, image_label, after_queue, gv_result,
                  unlinked, outside_viewer >>

\* confirm_quit, from Escape or the window's close button.
ConfirmQuit ==
  /\ Interactive
  /\ dialog' = IF files_to_delete # {} THEN PromptDialog ELSE "quit"
  /\ UNCHANGED << fs, pc, unused_files, current_index, files_to_delete,
                  delete_var, checkbox_state, commit_state, prev_state,
                  next_state, keys_bound, image_label, after_queue, gv_result,
                  unlinked, outside_viewer >>

\* master.quit(); master.destroy(): the main loop ends, run_analysis returns.
CloseWindow ==
  /\ pc' = "closed"
  /\ after_queue' = {}
  /\ dialog' = "none"

\* The answer to "No images marked for deletion. Quit review?".
AnswerQuit ==
  /\ pc = "review"
  /\ dialog = "quit"
  /\ \/ CloseWindow
     \/ dialog' = "none" /\ UNCHANGED << pc, after_queue >>
  /\ UNCHANGED << fs, unused_files, current_index, files_to_delete, delete_var,
                  checkbox_state, commit_state, prev_state, next_state,
                  keys_bound, image_label, gv_result, unlinked, outside_viewer >>

\* The "No Action" box is closed.
CloseNoAction ==
  /\ pc = "review"
  /\ dialog = "noaction"
  /\ dialog' = "none"
  /\ UNCHANGED << fs, pc, unused_files, current_index, files_to_delete,
                  delete_var, checkbox_state, commit_state, prev_state,
                  next_state, keys_bound, image_label, after_queue, gv_result,
                  unlinked, outside_viewer >>

(* -------------- gui_viewer: the confirmed deletion batch ---------------- *)

\* Most files another process removes while the review window is open.
MaxExternal == 1

FilesToAttemptDeleteAll(ftd, uf) == { uf[i] : i \in DOMAIN uf }

\* files_to_attempt_delete = self.files_to_delete.copy()
FilesToAttemptDelete(ftd, uf) == ftd

\* _disable_ui_during_action
DisableUi ==
  /\ commit_state' = "disabled"
  /\ next_state' = "disabled"
  /\ prev_state' = "disabled"
  /\ checkbox_state' = "disabled"
  /\ keys_bound' = FALSE

\* What gui_viewer.perform_safe_deletion returns for a set that is not empty:
\* the counts and the set are overwritten after the loop.
PlaceholderResult(files) == << Cardinality(files), 0, files >>

\* "Yes" in the confirmation box: the interface is disabled and
\* gui_viewer.perform_safe_deletion runs over the marked files, calling
\* f.unlink() on each; the "Deletion Complete" box opens.
AnswerYes ==
  /\ pc = "review"
  /\ dialog = "confirm"
  /\ DisableUi
  /\ LET files == FilesToAttemptDelete(files_to_delete, unused_files)
     IN  IF files = {}
         THEN \* return 0, 0: three names cannot be unpacked, the handler ends
              /\ gv_result' = << 0, 0 >>
              /\ dialog' = "none"
              /\ UNCHANGED << fs, unlinked >>
         ELSE \E removed \in SUBSET { f \in files : CanUnlink(f, fs) } :
                \* unlink() raises for a missing file and may raise for any other
                /\ fs' = fs \ removed
                /\ unlinked' = unlinked \cup removed
                /\ gv_result' = PlaceholderResult(files)
                /\ dialog' = "info"
  /\ UNCHANGED << pc, unused_files, current_index, files_to_delete, delete_var,
                  image_label, after_queue, outside_viewer >>

\* "No": quit without deleting.
AnswerNo ==
  /\ pc = "review"
  /\ dialog = "confirm"
  /\ CloseWindow
  /\ UNCHANGED << fs, unused_files, current_index, files_to_delete, delete_var,
                  checkbox_state, commit_state, prev_state, next_state,
                  keys_bound, image_label, gv_result, unlinked, outside_viewer >>

AnswerCancelClearsMarks ==
  /\ pc = "review"
  /\ dialog = "confirm"
  /\ dialog' = "none"
  /\ files_to_delete' = {}
  /\ UNCHANGED << fs, pc, unused_files, current_index, delete_var,
                  checkbox_state, commit_state, prev_state, next_state,
                  keys_bound, image_label, after_queue, gv_result, unlinked,
                  outside_viewer >>

\* "Cancel": back to the review.
AnswerCancel ==
  /\ pc = "review"
  /\ dialog = "confirm"
  /\ dialog' = "none"
  /\ UNCHANGED << fs, pc, unused_files, current_index, files_to_delete,
                  delete_var, checkbox_state, commit_state, prev_state,
                  next_state, keys_bound, image_label, after_queue, gv_result,
                  unlinked, outside_viewer >>

DifferenceUpdateNothing(marked, deleted) == marked

IndexAfterBatchKept(ci, list_len) == ci

\* The index after a batch: 0 for an empty list, the last position when the
\* index is past the end, else the index as it was.
IndexAfterBatch(ci, list_len) ==
  IF list_len = 0 THEN 0
  ELSE IF ci >= list_len THEN list_len - 1
  ELSE ci

\* files_to_delete.difference_update(successfully_deleted_files)
DifferenceUpdate(marked, deleted) == marked \ deleted

\* The "Deletion Complete" box is closed: the lists are reconciled with
\* successfully_deleted_files, the view reloaded and the interface re-enabled.
CloseInfo ==
  /\ pc = "review"
  /\ dialog = "info"
  /\ LET successfully_deleted_files == gv_result[3]
         marked == DifferenceUpdate(files_to_delete, successfully_deleted_files)
         keep(f) == f \notin successfully_deleted_files
         files  == SelectSeq(unused_files, keep)
     IN  /\ files_to_delete' = marked
         /\ unused_files' = files
         /\ IF files = <<>>
            THEN /\ current_index' = IndexAfterBatch(current_index, Len(files))
                 /\ image_label' = Label("empty", <<>>)
                 /\ SetStatus(UpdateStatus(files, current_index', marked))
                 /\ UNCHANGED after_queue
            ELSE ApplyLoad(LoadImage(files,
                                     IndexAfterBatch(current_index, Len(files)),
                                     marked, after_queue))
  /\ keys_bound' = TRUE
  /\ dialog' = "none"
  /\ UNCHANGED << fs, pc, gv_result, unlinked, outside_viewer >>

(* ------------------ gui_viewer: the after callbacks --------------------- *)

\* load_image or _load_image_if_ready comes due.
LoadImageCallback ==
  /\ pc = "review"
  /\ \E cb \in after_queue \cap { CB_load_image, CB_load_image_if_ready } :
       ApplyLoad(LoadImage(unused_files, current_index, files_to_delete,
                           after_queue \ { cb }))
  /\ UNCHANGED << fs, pc, unused_files, files_to_delete, keys_bound, dialog,
                  gv_result, unlinked, outside_viewer >>

\* _remove_current_file_from_list(update_view=True), called with the label
\* that _display_error has just set.
RemoveCurrentFileFromList(queue, shown) ==
  IF unused_files = <<>> \/ current_index >= Len(unused_files)
  THEN /\ image_label' = shown
       /\ SetStatus(UpdateStatus(unused_files, current_index, files_to_delete))
       /\ after_queue' = queue
       /\ UNCHANGED << unused_files, files_to_delete, current_index >>
  ELSE LET current_file == unused_files[current_index + 1]
           files  == SubSeq(unused_files, 1, current_index)
                     \o SubSeq(unused_files, current_index + 2, Len(unused_files))
           marked == files_to_delete \ { current_file }
           idx    == IF current_index >= Len(files) /\ Len(files) > 0
                     THEN Len(files) - 1 ELSE current_index
       IN  /\ unused_files' = files
           /\ files_to_delete' = marked
           /\ IF files # <<>>
              THEN ApplyLoad(LoadImage(files, idx, marked, queue))
              ELSE /\ current_index' = idx
                   /\ image_label' = Label("empty", <<>>)
                   /\ SetStatus(UpdateStatus(files, idx, marked))
                   /\ after_queue' = queue

IndexChangedOnlyPastEnd(uf, ci, filepath) == uf = <<>> \/ ci >= Len(uf)

\* The first test of _load_image_task: the list is empty, or the index is
\* past its end, or the file at the index is not the file of the callback.
IndexChanged(uf, ci, filepath) ==
  \/ uf = <<>>
  \/ ci >= Len(uf)
  \/ uf[ci + 1] # filepath

\* _load_image_task(filepath, ...) comes due.
LoadImageTask ==
  /\ pc = "review"
  /\ \E filepath \in { unused_files[i] : i \in DOMAIN unused_files }
                     \cup { cb[2] : cb \in { c \in after_queue : Len(c) = 2 } } :
       /\ CB_load_image_task(filepath) \in after_queue
       /\ LET queue == after_queue \ { CB_load_image_task(filepath) }
          IN  IF IndexChanged(unused_files, current_index, filepath)
              THEN \* Skipping load ..., index changed
                   /\ after_queue' = queue
                   /\ UNCHANGED << unused_files, current_index, files_to_delete,
                                   delete_var, checkbox_state, commit_state,
                                   prev_state, next_state, image_label >>
              ELSE IF ~Exists(filepath, fs)
              THEN \* FileNotFoundError: the file leaves the review list
                   RemoveCurrentFileFromList(queue, Label("error", filepath))
              ELSE \E shown \in { "image", "error" } :
                     /\ image_label' = Label(shown, filepath)
                     /\ SetStatus(UpdateStatus(unused_files, current_index,
                                               files_to_delete))
                     /\ after_queue' = queue
                     /\ UNCHANGED << unused_files, current_index, files_to_delete >>
  /\ UNCHANGED << fs, pc, keys_bound, dialog, gv_result, unlinked,
                  outside_viewer >>

\* _on_resize: the frame changed size, _load_image_if_ready is (re)scheduled.
Resize ==
  /\ pc = "review"
  /\ after_queue' = after_queue \cup { CB_load_image_if_ready }
  /\ UNCHANGED << fs, pc, unused_files, current_index, files_to_delete,
                  delete_var, checkbox_state, commit_state, prev_state,
                  next_state, keys_bound, image_label, dialog, gv_result,
                  unlinked, outside_viewer >>

\* Another process removes a file of the review list.
ExternalRemove ==
  /\ pc = "review"
  /\ Cardinality(ext_removed) < MaxExternal
  /\ \E i \in DOMAIN unused_files :
       /\ unused_files[i] \in fs
       /\ fs' = fs \ { unused_files[i] }
       /\ ext_removed' = ext_removed \cup { unused_files[i] }
  /\ UNCHANGED << input_vars, run_vars, gv_vars, fu_vars >>

(* ------------------------------ the inputs ------------------------------ *)

\* Script texts.
\* no line
T_EMPTY ==
  <<>>

\* show a / image sub = "c/sub.png"
T_C10 ==
  << "s", "h", "o", "w", " ", "a", "\n", "i", "m", "a", "g", "e", " ", "s",
     "u", "b", " ", "=", " ", "\"", "c", "/", "s", "u", "b", ".", "p", "n",
     "g", "\"", "\n" >>

\* show c/sub
T_SHOW_SUB ==
  << "s", "h", "o", "w", " ", "c", "/", "s", "u", "b", "\n" >>

\* scene b
T_SCENE_B ==
  << "s", "c", "e", "n", "e", " ", "b", "\n" >>

\* show a x / scene b / image sub = "c/sub.png" / image link = "link.png"
T_ALL ==
  << "s", "h", "o", "w", " ", "a", " ", "x", "\n", "s", "c", "e", "n", "e",
     " ", "b", "\n", "i", "m", "a", "g", "e", " ", "s", "u", "b", " ", "=",
     " ", "\"", "c", "/", "s", "u", "b", ".", "p", "n", "g", "\"", "\n",
     "i", "m", "a", "g", "e", " ", "l", "i", "n", "k", " ", "=", " ", "\"",
     "l", "i", "n", "k", ".", "p", "n", "g", "\"", "\n" >>

\* show eileen happy / scene bg/room
T_EILEEN ==
  << "s", "h", "o", "w", " ", "e", "i", "l", "e", "e", "n", " ", "h", "a",
     "p", "p", "y", "\n", "s", "c", "e", "n", "e", " ", "b", "g", "/", "r",
     "o", "o", "m", "\n" >>

\* show a / show eileen happy
T_AFTER_BARE ==
  << "s", "h", "o", "w", " ", "a", "\n", "s", "h", "o", "w", " ", "e", "i",
     "l", "e", "e", "n", " ", "h", "a", "p", "p", "y", "\n" >>

\* imagebutton auto "images/button_%s.png" action NullAction()
T_BUTTON ==
  << "i", "m", "a", "g", "e", "b", "u", "t", "t", "o", "n", " ", "a", "u",
     "t", "o", " ", "\"", "i", "m", "a", "g", "e", "s", "/", "b", "u", "t",
     "t", "o", "n", "_", "%", "s", ".", "p", "n", "g", "\"", " ", "a", "c",
     "t", "i", "o", "n", " ", "N", "u", "l", "l", "A", "c", "t", "i", "o",
     "n", "(", ")", "\n" >>

\* imagebutton "c\sub.png"
T_BUTTON_BACKSLASH ==
  << "i", "m", "a", "g", "e", "b", "u", "t", "t", "o", "n", " ", "\"", "c",
     "\\", "s", "u", "b", ".", "p", "n", "g", "\"", "\n" >>

\* imagebutton "%s" / imagebutton "b.png"
T_BUTTON_EMPTY ==
  << "i", "m", "a", "g", "e", "b", "u", "t", "t", "o", "n", " ", "\"", "%",
     "s", "\"", "\n", "i", "m", "a", "g", "e", "b", "u", "t", "t", "o", "n",
     " ", "\"", "b", ".", "p", "n", "g", "\"", "\n" >>

\* What the user types.
IN_ONE ==
  << "1" >>

IN_PROJ ==
  << "/", "p", "r", "o", "j" >>

IN_NOPE ==
  << "/", "n", "o", "p", "e" >>

IN_IMAGES ==
  << "/", "p", "r", "o", "j", "/", "g", "a", "m", "e", "/", "i", "m", "a",
     "g", "e", "s" >>

IN_GAME ==
  << "/", "p", "r", "o", "j", "/", "g", "a", "m", "e" >>

UserInput(project, images, scripts) ==
  [ project_dir_input |-> project, images_dir_input |-> images,
    script_dir_input |-> scripts ]

AllDirs == { D_PROJ, D_GAME, D_IMAGES, D_C, D_OTHER }

Setup(dirs, scripts, input) == [ dirs |-> dirs, scripts |-> scripts, input |-> input ]

\* A standard project found from its base directory: game/ holds the script.
S_AUTO == Setup(AllDirs, { R_MAIN }, UserInput(IN_PROJ, <<>>, <<>>))

\* The same with a game/scripts directory, which find_project_paths prefers.
S_AUTO_SCRIPTS ==
  Setup(AllDirs \cup { D_SCRIPTS }, { R_MAIN, R_CH1 }, UserInput(IN_PROJ, <<>>, <<>>))

\* The two directories typed by hand.
S_MANUAL ==
  Setup(AllDirs \cup { D_SCRIPTS }, { R_MAIN, R_CH1 }, UserInput(IN_ONE, IN_IMAGES, IN_GAME))

\* Configuration errors: no such project, no images directory, a bad entry.
S_NO_PROJECT == Setup(AllDirs, { R_MAIN }, UserInput(IN_NOPE, <<>>, <<>>))
S_NO_IMAGES  == Setup({ D_PROJ, D_GAME, D_OTHER }, { R_MAIN }, UserInput(IN_PROJ, <<>>, <<>>))
S_MANUAL_BAD == Setup(AllDirs, { R_MAIN }, UserInput(IN_ONE, IN_NOPE, IN_GAME))

ImageCandidates == { F_A, F_B, F_SUB, F_A2, F_TXT, F_LINK, F_AJ, F_NOEXT }

\* The state before run_analysis: a project tree, its script texts, the
\* scripts that cannot be read and what the user will type.
InitRun(imageSets, texts1, texts2, setups, unreadable) ==
  /\ \E imgs \in imageSets, setup \in setups :
       /\ fs = setup.dirs \cup setup.scripts \cup { F_OUT }
                 \cup (IF D_IMAGES \in setup.dirs THEN imgs ELSE {})
       /\ user_input = setup.input
       /\ \E bad \in SUBSET (setup.scripts \cap unreadable) : undecodable = bad
  /\ \E t1 \in texts1, t2 \in texts2 :
       script_text = [ r \in ScriptEntries |-> IF r = R_MAIN THEN t1 ELSE t2 ]
  /\ ext_removed = {}
  /\ pc = "start"
  /\ NoRun
  /\ NoViewer
  /\ NoCall

(* --------------- file_utils.perform_safe_deletion ----------------------- *)

\* The paths a caller may hand over.
FuCandidates == { F_A, F_SUB, F_LINK, F_OUT, D_C }

\* file_path.resolve()
FilePathAbs(file_path, f) == Resolve(file_path, f)

SafetySkipInverted(file_path_abs, base_abs) ==
  /\ base_abs \in Parents(file_path_abs)
  /\ Parent(file_path_abs) # base_abs

\* The two nested conditions of the safety check.
SafetySkip(file_path_abs, base_abs) ==
  /\ base_abs \notin Parents(file_path_abs)
  /\ Parent(file_path_abs) # base_abs

NextAfterErrorAbort(i, n) == n + 1

\* The except clause is inside the for loop: the loop goes on with the next path.
NextAfterError(i, n) == i + 1

LogEntry(file_path, file_path_abs, outcome) ==
  [ call |-> fu_calls, path |-> file_path, abs |-> file_path_abs,
    outcome |-> outcome ]

DelInitFs ==
  { D_PROJ, D_GAME, D_IMAGES, D_C, D_OTHER, F_A, F_B, F_SUB, F_LINK, F_OUT }

InitDel ==
  /\ \E gone \in SUBSET { F_A, F_SUB } : fs = DelInitFs \ gone
  /\ pc = "off"
  /\ NoInput
  /\ NoRun
  /\ NoViewer
  /\ NoCall

\* The call and the statements before the loop.
FuCall ==
  /\ pc = "off"
  /\ fu_pc \in { "idle", "returned" }
  /\ fu_calls < MaxCalls
  /\ \E S \in SUBSET FuCandidates :
       /\ Cardinality(S) <= MaxBatch
       /\ fu_files_to_delete' = S
       /\ files_to_process' = SortedPaths(S)
  /\ fu_calls' = fu_calls + 1
  /\ base_images_dir_abs' = Resolve(D_IMAGES, fs)
  /\ deleted_count' = 0
  /\ error_count' = 0
  /\ fu_next' = 1
  /\ fu_result' = <<>>
  /\ fu_pc' = "loop"
  /\ UNCHANGED << fs, fu_log, ext_removed, input_vars, run_vars, gv_vars >>

\* One iteration of the for loop.
FuIterate ==
  /\ fu_pc = "loop"
  /\ fu_next <= Len(files_to_process)
  /\ LET file_path     == files_to_process[fu_next]
         file_path_abs == FilePathAbs(file_path, fs)
     IN
       IF SafetySkip(file_path_abs, base_images_dir_abs)
       THEN \* Safety Skip ... continue
            /\ error_count' = error_count + 1
            /\ fu_next' = fu_next + 1
            /\ fu_log' = Append(fu_log, LogEntry(file_path, file_path_abs, "safety"))
            /\ UNCHANGED << fs, deleted_count >>
       ELSE IF file_path_abs \in fs
       THEN \/ \* unlink() succeeds
               /\ CanUnlink(file_path_abs, fs)
               /\ fs' = fs \ { file_path_abs }
               /\ deleted_count' = deleted_count + 1
               /\ fu_next' = fu_next + 1
               /\ fu_log' = Append(fu_log, LogEntry(file_path, file_path_abs, "deleted"))
               /\ UNCHANGED error_count
            \/ \* unlink() raises (a directory, a permission, an I/O failure)
               /\ error_count' = error_count + 1
               /\ fu_next' = NextAfterError(fu_next, Len(files_to_process))
               /\ fu_log' = Append(fu_log, LogEntry(file_path, file_path_abs, "error"))
               /\ UNCHANGED << fs, deleted_count >>
       ELSE \* Skipped (already deleted?): no counter is touched
            /\ fu_next' = fu_next + 1
            /\ fu_log' = Append(fu_log, LogEntry(file_path, file_path_abs, "skipped"))
            /\ UNCHANGED << fs, deleted_count, error_count >>
  /\ UNCHANGED << fu_pc, fu_calls, fu_files_to_delete, base_images_dir_abs,
                  files_to_process, fu_result, ext_removed, input_vars, run_vars,
                  gv_vars >>

\* The loop is over: the summary and the return.
FuReturn ==
  /\ fu_pc = "loop"
  /\ fu_next > Len(files_to_process)
  /\ fu_result' = << deleted_count, error_count >>
  /\ fu_pc' = "returned"
  /\ UNCHANGED << fs, fu_calls, fu_files_to_delete, base_images_dir_abs,
                  files_to_process, fu_next, deleted_count, error_count, fu_log,
                  ext_removed, input_vars, run_vars, gv_vars >>

NextDel == FuCall \/ FuIterate \/ FuReturn

SpecDel == InitDel /\ [][NextDel]_vars

(* ------------------------- the scan on its own -------------------------- *)

\* Largest number of entries put under the images root.
MaxImages == 3

InitScan ==
  InitRun({ S \in SUBSET ImageCandidates : Cardinality(S) <= MaxImages },
          { T_EMPTY, T_C10, T_SHOW_SUB, T_SCENE_B, T_ALL, T_EILEEN,
            T_AFTER_BARE, T_BUTTON, T_BUTTON_BACKSLASH, T_BUTTON_EMPTY },
          { T_EMPTY, T_SCENE_B },
          { S_AUTO, S_AUTO_SCRIPTS, S_MANUAL, S_NO_PROJECT, S_NO_IMAGES,
            S_MANUAL_BAD },
          ScriptEntries)

NextScan ==
  AskPaths \/ ImagesDirVanishes \/ ScanImages \/ ScanScripts \/ Reconcile

SpecScan == InitScan /\ [][NextScan]_vars

(* --------------------------- the whole program -------------------------- *)

Init ==
  InitRun({ { F_A, F_B, F_SUB }, { F_A, F_B, F_LINK } },
          { T_EMPTY, T_SCENE_B }, { T_EMPTY }, { S_AUTO }, {})

Next ==
  \/ AskPaths
  \/ ScanImages
  \/ ScanScripts
  \/ Reconcile
  \/ NextImage
  \/ PrevImage
  \/ ToggleDeleteMark
  \/ CommitDeletions
  \/ ConfirmQuit
  \/ AnswerQuit
  \/ CloseNoAction
  \/ AnswerYes
  \/ AnswerNo
  \/ AnswerCancel
  \/ CloseInfo
  \/ LoadImageCallback
  \/ LoadImageTask
  \/ Resize
  \/ ExternalRemove

Spec == Init /\ [][Next]_vars

(* ------------- the program and the deletion utility together ------------ *)

\* Either run_analysis is started, or file_utils.perform_safe_deletion is
\* called on its own.
InitBoth == Init \/ InitDel

NextBoth == Next \/ NextDel

SpecBoth == InitBoth /\ [][NextBoth]_vars

(* ---------------- claims about file_utils.perform_safe_deletion --------- *)

\* The log records of call c, and those among them with outcome o.
CallEntries(c) == { i \in DOMAIN fu_log : fu_log[i].call = c }
CallOutcome(c, o) == { i \in CallEntries(c) : fu_log[i].outcome = o }

\* p is base or lies below it.
AtOrUnder(p, base) ==
  Len(base) <= Len(p) /\ SubSeq(p, 1, Len(base)) = base

\* C1: perform_safe_deletion never removes a file whose resolved path is not
\* at or under the base root, even when that path is in the input set; each
\* such path adds one to the errors/skips count and nothing to the deleted
\* count.
C1_OutsideRootNeverDeleted ==
  /\ \A p \in DelInitFs \ fs :
       AtOrUnder(Resolve(p, DelInitFs), Resolve(D_IMAGES, DelInitFs))
  /\ fu_pc # "idle" =>
       LET outside == { i \in CallEntries(fu_calls) :
                          ~AtOrUnder(Resolve(fu_log[i].path, DelInitFs),
                                     Resolve(D_IMAGES, DelInitFs)) }
       IN  /\ \A i \in outside : fu_log[i].outcome = "safety"
           /\ error_count >= Cardinality(outside)
           /\ deleted_count =
                Cardinality(CallOutcome(fu_calls, "deleted") \ outside)

\* A call returned that was handed the outside file and the link to it, next
\* to a file of the tree that it deleted.
C1_Witness ==
  /\ fu_pc = "returned"
  /\ { F_OUT, F_LINK } \subseteq fu_files_to_delete
  /\ fu_result = << 1, 2 >>
  /\ { F_OUT, F_LINK } \subseteq fs

\* C6: one failing deletion never aborts the batch: a path whose deletion
\* raises is counted as an error and every input path is processed exactly
\* once, so the returned call has one log record per input path.
C6_FailureDoesNotAbortBatch ==
  /\ fu_pc = "loop" =>
       /\ Cardinality(CallEntries(fu_calls)) = fu_next - 1
       /\ \A i \in CallEntries(fu_calls) :
            \E k \in 1..(fu_next - 1) : fu_log[i].path = files_to_process[k]
  /\ fu_pc = "returned" =>
       /\ Cardinality(CallEntries(fu_calls)) = Cardinality(fu_files_to_delete)
       /\ { fu_log[i].path : i \in CallEntries(fu_calls) } = fu_files_to_delete
       /\ error_count >= Cardinality(CallOutcome(fu_calls, "error"))

\* A returned batch in which a deletion raised and a later path was deleted.
C6_Witness ==
  /\ fu_pc = "returned"
  /\ \E i, j \in CallEntries(fu_calls) :
       /\ i < j
       /\ fu_log[i].outcome = "error"
       /\ fu_log[j].outcome = "deleted"

\* C7: a second call on a path the first call deleted yields a skip for that
\* path: it deletes nothing, raises nothing, and the path is counted as a skip
\* (it is in the returned errors/skips count) and not as an error.
C7_SecondCallCountsSkip ==
  (fu_pc = "returned" /\ fu_calls = 2) =>
    LET again == { i \in CallEntries(2) :
                     \E j \in CallOutcome(1, "deleted") :
                       fu_log[j].path = fu_log[i].path }
    IN  /\ \A i \in again : fu_log[i].outcome = "skipped"
        /\ fu_result[2] >= Cardinality(again)

(* ------------------------- claims about the scan ------------------------ *)

\* run_analysis has computed unused_stems.
Reconciled == pc \in { "done", "review" }

\* The files handed to the reviewer.
Reviewed == { unused_files[i] : i \in DOMAIN unused_files }

\* The relative stem of an image: its path below the images root, joined by
\* "/", without the extension.
RelativeStem(p, root) ==
  JoinParts(SubSeq(p, Len(root) + 1, Len(p) - 1) \o << Stem(p) >>)

\* C8: the unused set is the enumerated image keys minus the reference keys:
\* every key in it is the key of an enumerated image file, no key in it is a
\* reference key, and every enumerated key that is not referenced is in it.
C8_UnusedIsEnumeratedMinusReferenced ==
  Reconciled =>
    /\ \A k \in unused_stems :
         \E path \in all_image_paths :
           PathOf(path) \in fs /\ Stem(PathOf(path)) = k
    /\ unused_stems \cap used_image_references = {}
    /\ \A path \in all_image_paths :
         Stem(PathOf(path)) \notin used_image_references
           => Stem(PathOf(path)) \in unused_stems

\* Three images enumerated, one of them referenced, the other two unused.
C8_Witness ==
  /\ pc = "review"
  /\ Cardinality(all_image_names) = 3
  /\ Cardinality(all_image_names \cap used_image_references) = 1
  /\ Cardinality(unused_stems) = 2

\* C9: an image in a subdirectory of the images root whose relative stem (for
\* instance c/sub) is a reference key is used: its key is not in the unused
\* set and the file is not handed to the reviewer.
C9_RelativeStemMatchIsUsed ==
  Reconciled =>
    \A path \in all_image_paths :
      LET p == PathOf(path)
      IN  ( /\ Len(p) > Len(images_dir) + 1
            /\ RelativeStem(p, images_dir) \in used_image_references )
          => /\ Stem(p) \notin unused_stems
             /\ p \notin Reviewed

\* C10: with a.png, b.png and c/sub.png under the images root and one script
\* holding the lines show a and image sub = "c/sub.png" the unused set is {b};
\* with a script holding neither line it is {a, b, sub}.
C10_EndToEnd ==
  ( /\ Reconciled
    /\ fs \cap ImageCandidates = { F_A, F_B, F_SUB }
    /\ RGlobRpy(script_dir, fs) = { R_MAIN }
    /\ undecodable = {} )
  => /\ script_text[R_MAIN] = T_C10 => unused_stems = { <<"b">> }
     /\ script_text[R_MAIN] = T_EMPTY
          => unused_stems = { <<"a">>, <<"b">>, <<"s", "u", "b">> }

\* The scenario with the two lines, at the launch of the reviewer.
C10_Witness ==
  /\ pc = "review"
  /\ fs \cap ImageCandidates = { F_A, F_B, F_SUB }
  /\ RGlobRpy(script_dir, fs) = { R_MAIN }
  /\ undecodable = {}
  /\ script_text[R_MAIN] = T_C10
  /\ unused_stems = { <<"b">> }
  /\ Reviewed = { F_B }

(* ------------------ claims about the Image Enumerator ------------------- *)

\* get_image_names has returned its pair to run_analysis.
Scanned == pc \in { "scan_scripts", "reconcile", "done", "review" }

\* The extensions of the allow-list, without the dot.
AllowList ==
  { <<"p", "n", "g">>, <<"j", "p", "g">>, <<"j", "p", "e", "g">>,
    <<"a", "v", "i", "f">>, <<"w", "e", "b", "p">>, <<"s", "v", "g">> }

\* a and b are the same character up to the case of a letter.
SameIgnoringCase(a, b) ==
  \/ a = b
  \/ \E k \in 1..26 : { a, b } = { UpperLetters[k], LowerLetters[k] }

\* The file name ends with a dot and the extension ext, in any case.
HasExtension(name, ext) ==
  /\ Len(name) > Len(ext) + 1
  /\ name[Len(name) - Len(ext)] = "."
  /\ \A i \in 1..Len(ext) :
       SameIgnoringCase(name[Len(name) - Len(ext) + i], ext[i])

\* The qualifying files: the regular files at any depth under the root whose
\* extension is on the allow-list.
Qualifying(root, f) ==
  { p \in f : /\ p # root
              /\ AtOrUnder(p, root)
              /\ Resolve(p, f) \in f \ DirEntries
              /\ \E ext \in AllowList : HasExtension(Name(p), ext) }

\* C11, as the spec states it: the size of the key set get_image_names
\* returns equals the number of qualifying files under the root.
C11_KeyCountIsFileCount ==
  Scanned =>
    Cardinality(all_image_names) = Cardinality(Qualifying(images_dir, fs))

\* C11, amended: the path set has one entry per qualifying file, and the key
\* set holds the stems of the qualifying files, one per distinct stem, so its
\* size is the number of distinct stems and at most the number of files.
C11_PathCountIsFileCount ==
  Scanned =>
    LET files == Qualifying(images_dir, fs)
    IN  /\ Cardinality(all_image_paths) = Cardinality(files)
        /\ all_image_names = { Stem(p) : p \in files }
        /\ Cardinality(all_image_names) <= Cardinality(files)

\* Three qualifying files, two of them (a.png, a.jpg) with the same stem.
C11_Witness ==
  /\ Scanned
  /\ Qualifying(images_dir, fs) = { F_A, F_AJ, F_B }
  /\ Cardinality(all_image_paths) = 3
  /\ all_image_names = { <<"a">>, <<"b">> }

\* C12: a file at any depth under the root is in the enumeration if and only
\* if it is a regular file whose extension, compared without regard to case,
\* is on the allow-list: c/a.PNG is included, notes.txt and README never.
C12_IncludedIffAllowedExtension ==
  Scanned =>
    /\ \A p \in { q \in fs : q # images_dir /\ AtOrUnder(q, images_dir) } :
         AsPosix(p) \in all_image_paths <=> p \in Qualifying(images_dir, fs)
    /\ \A path \in all_image_paths :
         PathOf(path) \in fs /\ AtOrUnder(PathOf(path), images_dir)
    /\ F_A2 \in fs => AsPosix(F_A2) \in all_image_paths
    /\ AsPosix(F_TXT) \notin all_image_paths
    /\ AsPosix(F_NOEXT) \notin all_image_paths

\* The scan of a root holding c/a.PNG, notes.txt and README kept the first.
C12_Witness ==
  /\ Scanned
  /\ { F_A2, F_TXT, F_NOEXT } \subseteq fs
  /\ all_image_paths = { AsPosix(F_A2) }

\* C13: when the images root does not exist or is not a directory,
\* get_image_names returns an empty result that run_analysis consumes as an
\* empty enumeration (no path, no key) without raising.
C13_MissingRootIsEmptyEnumeration ==
  ( /\ pc \notin { "start", "exit", "scan_images" }
    /\ Resolve(images_dir, fs) \notin fs \cap DirEntries )
  => /\ pc # "raised"
     /\ all_image_paths = {}
     /\ all_image_names = {}

(* ------------------- claims about the configuration -------------------- *)

\* The file system as run_analysis found it at its start.
StartFs == fs \cup ext_removed

\* The path typed at a prompt names an existing directory.
TypedDir(input) ==
  Resolve(PathOf(Strip(input)), StartFs) \in StartFs \cap DirEntries

\* A directory below the project directory the user typed exists.
ProjectSubdir(names) ==
  Resolve(PathOf(Strip(user_input.project_dir_input)) \o names, StartFs)
    \in StartFs \cap DirEntries

\* A root directory is missing or is not a directory: the project directory,
\* its game directory (the scripts are looked for in it and below it) or its
\* game/images directory in the automatic mode, one of the two typed
\* directories in the manual mode.
ConfigError ==
  IF Strip(user_input.project_dir_input) = <<"1">>
  THEN \/ ~TypedDir(user_input.images_dir_input)
       \/ ~TypedDir(user_input.script_dir_input)
  ELSE \/ ~TypedDir(user_input.project_dir_input)
       \/ ~ProjectSubdir(<< <<"g", "a", "m", "e">> >>)
       \/ ~ProjectSubdir(<< <<"g", "a", "m", "e">>,
                            <<"i", "m", "a", "g", "e", "s">> >>)

\* C14: with a missing or invalid root directory run_analysis stops before any
\* scanning: it never gets past the prompt, get_image_names and
\* extract_image_references have produced nothing, no review window exists
\* and no file was removed.
C14_ConfigErrorAbortsBeforeScan ==
  ConfigError =>
    /\ pc \in { "start", "exit" }
    /\ NoRun
    /\ NoViewer
    /\ ext_removed = {}

\* run_analysis has stopped at a project without a game/images directory.
C14_Witness ==
  /\ pc = "exit"
  /\ ConfigError
  /\ TypedDir(user_input.project_dir_input)
  /\ D_IMAGES \notin fs

(* ---------------- claims about the Reference Extractor ------------------ *)

\* extract_image_references has returned to run_analysis.
Extracted == pc \in { "reconcile", "done", "review" }

\* The script files of the scan, and those among them that can be read.
ScriptFiles == RGlobRpy(script_dir, fs)
ReadableScripts == ScriptFiles \ undecodable

\* The keys the three matchers find in the text of one script file.
KeysIn(r) ==
  ShowSceneKeys(script_text[r]) \cup DefineImageKeys(script_text[r])
    \cup ImagebuttonKeys(script_text[r])

\* C15: a script file that cannot be opened or decoded is skipped: it adds no
\* key, the scan goes on, and the returned set holds every key of every other
\* script file.
C15_UnreadableScriptIsSkipped ==
  Extracted =>
    used_image_references = UNION { KeysIn(r) : r \in ReadableScripts }

\* A scan of two scripts, script.rpy unreadable, that kept the key b of
\* scripts/ch1.rpy.
C15_Witness ==
  /\ Extracted
  /\ ScriptFiles = { R_MAIN, R_CH1 }
  /\ undecodable = { R_MAIN }
  /\ script_text[R_MAIN] # <<>>
  /\ used_image_references = { <<"b">> }

\* C16: the returned reference keys do not depend on the order in which
\* rglob yields the script files: every order gives the set that was returned.
C16_OrderIndependent ==
  Extracted =>
    \A order \in Orders(ScriptFiles) :
      extract_image_references(script_dir, fs, script_text, undecodable,
                               order) = used_image_references

\* A scan of two readable scripts that hold different keys.
C16_Witness ==
  /\ Extracted
  /\ ScriptFiles = { R_MAIN, R_CH1 }
  /\ undecodable = {}
  /\ KeysIn(R_MAIN) \ KeysIn(R_CH1) # {}
  /\ KeysIn(R_CH1) \ KeysIn(R_MAIN) # {}
  /\ used_image_references = KeysIn(R_MAIN) \cup KeysIn(R_CH1)

\* C17: every returned reference key uses forward slashes and carries no
\* extension; a key the imagebutton matcher takes from a quoted path with
\* backslashes has them turned into forward slashes, so no key holds one.
C17_KeysUseSlashesAndNoExtension ==
  Extracted =>
    \A key \in used_image_references :
      /\ \A i \in 1..Len(key) : key[i] # "\\"
      /\ ~ \E ext \in AllowList : HasExtension(key, ext)

\* The text has a line that is exactly the given one.
HasLine(text, line) ==
  \E i \in 1..Len(text) :
    /\ AtLineStart(text, i)
    /\ i + Len(line) - 1 <= Len(text)
    /\ SubSeq(text, i, i + Len(line) - 1) = line
    /\ i + Len(line) > Len(text) \/ text[i + Len(line)] = "\n"

L_show_eileen_happy ==
  << "s", "h", "o", "w", " ", "e", "i", "l", "e", "e", "n", " ", "h", "a",
     "p", "p", "y" >>

L_scene_bg_room ==
  << "s", "c", "e", "n", "e", " ", "b", "g", "/", "r", "o", "o", "m" >>

\* C18: the show/scene matcher keeps the first token after show or scene and
\* drops the attributes that follow on the line: for every script text, a
\* line show eileen happy gives the key eileen (not happy, not eileen happy)
\* and a line scene bg/room gives the key bg/room.
C18_FirstTokenIsTheKey ==
  Extracted =>
    \A r \in ReadableScripts :
      /\ HasLine(script_text[r], L_show_eileen_happy) =>
           /\ <<"e", "i", "l", "e", "e", "n">> \in used_image_references
           /\ <<"h", "a", "p", "p", "y">> \notin used_image_references
           /\ SubSeq(L_show_eileen_happy, 6, 17) \notin used_image_references
      /\ HasLine(script_text[r], L_scene_bg_room) =>
           <<"b", "g", "/", "r", "o", "o", "m">> \in used_image_references

\* imagebutton auto "images/button_%s.png" action NullAction()
L_imagebutton_auto == SubSeq(T_BUTTON, 1, Len(T_BUTTON) - 1)

\* The quoted path of that line, and the path without its placeholder.
Q_button == SubSeq(T_BUTTON, 19, 38)
Q_button_no_placeholder == SubSeq(Q_button, 1, 14) \o SubSeq(Q_button, 17, 20)

\* C19: the imagebutton matcher removes every placeholder (a % and the
\* character after it) from the quoted path, then the extension, and records
\* the result: the line
\*   imagebutton auto "images/button_%s.png" action NullAction()
\* gives the key images/button_, and none of the intermediate strings.
C19_ImagebuttonKey ==
  Extracted =>
    \A r \in ReadableScripts :
      HasLine(script_text[r], L_imagebutton_auto) =>
        /\ SubSeq(Q_button, 1, 14) \in used_image_references
        /\ Q_button \notin used_image_references
        /\ Q_button_no_placeholder \notin used_image_references
        /\ SubSeq(Q_button, 1, 16) \notin used_image_references

\* The scan of a script with that line returned the key images/button_.
C19_Witness ==
  /\ Extracted
  /\ R_MAIN \in ReadableScripts
  /\ script_text[R_MAIN] = T_BUTTON
  /\ HasLine(script_text[R_MAIN], L_imagebutton_auto)
  /\ Q_button = << "i", "m", "a", "g", "e", "s", "/", "b", "u", "t", "t", "o",
                   "n", "_", "%", "s", ".", "p", "n", "g" >>
  /\ << "i", "m", "a", "g", "e", "s", "/", "b", "u", "t", "t", "o", "n", "_" >>
       \in used_image_references

(* ----------------------- claims about the review ------------------------ *)

\* C2: the deletion the review window runs after "Yes" refuses every marked
\* path that resolves outside base_images_dir: no path the viewer has unlinked
\* resolved outside the images root.
C2_ViewerRefusesOutsideRoot ==
  \A p \in unlinked :
    AtOrUnder(Resolve(p, fs \cup { p }), Resolve(images_dir, fs))

\* C3: the deletion returns the deleted count, the error/skip count and the
\* set of input paths really removed: a path whose unlink failed is an error
\* and is not reported as deleted.
C3_ReturnsWhatWasDeleted ==
  gv_result # <<>> =>
    /\ Len(gv_result) = 3
    /\ gv_result[3] \subseteq unlinked
    /\ gv_result[1] = Cardinality(gv_result[3])

\* C4: no file whose key is a reference key is ever deleted, whatever the
\* review actions and the confirmed batches were.
C4_ReferencedNeverDeleted ==
  \A f \in unlinked : Stem(f) \notin used_image_references

\* A batch deleted a file while b.png, which a script references, is kept.
C4_Witness ==
  /\ unlinked # {}
  /\ <<"b">> \in used_image_references
  /\ F_B \in fs

\* C5: a file is unlinked only in the batch that follows "Yes" in the
\* confirmation box, and only if it was marked at that moment; no other step
\* of the program removes a file.
C5_OnlyConfirmedMarkedFilesDeleted ==
  [][ ((fs' # fs /\ ext_removed' = ext_removed) \/ unlinked' # unlinked)
        => /\ dialog = "confirm"
           /\ dialog' = "info"
           /\ fs' \subseteq fs
           /\ (fs \ fs') \subseteq files_to_delete
           /\ unlinked' = unlinked \cup (fs \ fs') ]_vars

\* A confirmed batch removed a marked file and left an unmarked one in place.
C5_Witness ==
  /\ dialog = "info"
  /\ unlinked # {}
  /\ \E f \in Reviewed : f \notin gv_result[3] /\ f \in fs

\* C20: an entry leaves unused_files only when the deletion reported success
\* for its file: every step that drops a file from the list is the step that
\* applies the result of a batch that reported the file as deleted, and no
\* other event removes an entry.
C20_RemovedOnlyWhenReportedDeleted ==
  [][ \A f \in Reviewed \ Reviewed' :
        /\ dialog = "info"
        /\ f \in gv_result[3] ]_vars

(* ------------------- claims about the review list ----------------------- *)

\* seq is in ascending order of PathLess, so it has no entry twice.
Ascending(seq) ==
  \A i, j \in DOMAIN seq : i < j => PathLess(seq[i], seq[j])

\* C21: unused_files is sorted ascending by path without duplicates when the
\* viewer is constructed and stays so under navigation, marking, removals and
\* deletion batches; file_utils.perform_safe_deletion holds its input sorted
\* and processes the paths in that order.
C21_StableSortOrder ==
  /\ Ascending(unused_files)
  /\ Ascending(files_to_process)
  /\ \A i, j \in CallEntries(fu_calls) :
       i < j => PathLess(fu_log[i].path, fu_log[j].path)

\* A batch was applied to the list and two files are still under review.
C21_Witness ==
  /\ pc = "review"
  /\ dialog = "none"
  /\ Len(gv_result) = 3
  /\ gv_result[3] \cap Reviewed = {}
  /\ Len(unused_files) >= 2

(* --------------- claims about the imagebutton matcher ------------------- *)

\* The quoted paths of the imagebutton matches of a text, placeholders and
\* surrounding blanks removed.
ImagebuttonPaths(content) ==
  LET m == ImagebuttonFindIter(content, 1)
  IN  { Strip(StripPlaceholders(Strip(m[k]))) : k \in DOMAIN m }

\* C22: an imagebutton match whose path is empty after the placeholders are
\* stripped records no key and has no other effect: every show/scene key,
\* every image-definition key and the key of every other imagebutton match of
\* a readable script file is in the result.
C22_EmptyPathLeavesOtherMatches ==
  Extracted =>
    \A r \in ReadableScripts :
      /\ ShowSceneKeys(script_text[r]) \subseteq used_image_references
      /\ DefineImageKeys(script_text[r]) \subseteq used_image_references
      /\ \A base_path \in ImagebuttonPaths(script_text[r]) \ { <<>> } :
           LET no_ext == WithSuffixEmptyAsPosix(base_path)
           IN  ~no_ext.raised => no_ext.text \in used_image_references

(* ------------------ claims about the confirmation box ------------------- *)

\* C23: _prompt_and_perform_deletion returns True on Yes and on No and False
\* on Cancel, and the review window is closed when the deletion was performed
\* (Yes) and when the user chose No, so that confirm_quit with files marked
\* stays in the application only on Cancel: the step that ends the Yes branch,
\* closing the "Deletion Complete" box, closes the window.
C23_WindowClosedAfterYes ==
  [][ (dialog = "info" /\ dialog' = "none") => pc' = "closed" ]_vars

(* ------------------ claims about the hand-over to the review ------------ *)

\* C24: the files run_analysis hands to the review are exactly the enumerated
\* image files whose key is in the unused set: every enumerated file with an
\* unreferenced key is handed over, all the files that share such a key
\* included, and no file whose key is referenced is handed over.
C24_HandedOverIffKeyUnused ==
  Reconciled =>
    /\ Reviewed = { p \in Qualifying(images_dir, fs) : Stem(p) \in unused_stems }
    /\ \A p \in Qualifying(images_dir, fs) :
         p \in Reviewed <=> Stem(p) \notin used_image_references

\* a.png and a.jpg share the unreferenced key a and are both handed over,
\* while b.png, which a script references, is not.
C24_Witness ==
  /\ pc = "review"
  /\ { F_A, F_AJ, F_B } \subseteq Qualifying(images_dir, fs)
  /\ { F_A, F_AJ } \subseteq Reviewed
  /\ <<"b">> \in used_image_references
  /\ F_B \notin Reviewed

(* ------------------ claims about the viewer's state --------------------- *)

\* C25: in every state of the viewer the files marked for deletion are files
\* of the review list, whatever toggles, navigation, list removals and
\* deletion batches came before, and once the result of a batch has been
\* applied no file it reported as deleted is still marked.
C25_MarkedFilesAreListed ==
  /\ files_to_delete \subseteq Reviewed
  /\ (Len(gv_result) = 3 /\ dialog # "info") =>
       gv_result[3] \cap files_to_delete = {}

\* A batch deleted one marked file, and a file that is still under review
\* has been marked since.
C25_Witness ==
  /\ pc = "review"
  /\ dialog = "none"
  /\ Len(gv_result) = 3
  /\ gv_result[3] # {}
  /\ gv_result[3] \cap Reviewed = {}
  /\ files_to_delete # {}

\* C26: between event handlers current_index is a valid position: it is at
\* least 0 and below len(unused_files) when the list is not empty and it is 0
\* when the list is empty, after any sequence of next_image, prev_image,
\* toggles, list removals and deletion batches.
C26_IndexInRange ==
  /\ current_index >= 0
  /\ unused_files # <<>> => current_index < Len(unused_files)
  /\ unused_files = <<>> => current_index = 0

\* A batch deleted the last file of the list, and the index is at the last
\* of the files that remain.
C26_Witness ==
  /\ pc = "review"
  /\ dialog = "none"
  /\ Len(gv_result) = 3
  /\ unused_files # <<>>
  /\ current_index = Len(unused_files) - 1
  /\ current_index > 0
  /\ \E f \in gv_result[3] :
       f \notin Reviewed /\ PathLess(unused_files[Len(unused_files)], f)

C28_CountsAddUpToInput ==
  fu_pc = "returned" =>
    /\ fu_result[1] + fu_result[2] = Cardinality(fu_files_to_delete)
    /\ fu_result[2] = Cardinality(CallOutcome(fu_calls, "safety")
                                   \cup CallOutcome(fu_calls, "skipped")
                                   \cup CallOutcome(fu_calls, "error"))

(* ------------------ claims about the deferred image load ---------------- *)

\* The file that unused_files[current_index] names, None when there is none.
CurrentFile ==
  IF unused_files # <<>> /\ current_index < Len(unused_files)
  THEN unused_files[current_index + 1] ELSE None

\* The files for which a _load_image_task is waiting.
PendingLoads == { cb[2] : cb \in { c \in after_queue : Len(c) = 2 } }

\* C29: a deferred load for file F displays F only if, when the callback
\* runs, the review list is not empty and unused_files[current_index] is
\* still F: a callback that has become stale changes no state, so under any
\* interleaving of navigation, removals and pending callbacks the image on
\* display is the image of the current file.
C29_StaleLoadChangesNothing ==
  /\ [](image_label.kind = "image" => image_label.file = CurrentFile)
  /\ [][ \A f \in PendingLoads :
           (/\ pc' = "review"
            /\ after_queue' = after_queue \ { CB_load_image_task(f) }
            /\ f # CurrentFile)
           => UNCHANGED << fs, unused_files, current_index, files_to_delete,
                           image_label, delete_var, checkbox_state,
                           commit_state, prev_state, next_state, keys_bound,
                           dialog >> ]_vars

\* The image of the current file is on display while the load of another
\* file, scheduled before the user moved on, is still waiting.
C29_Witness ==
  /\ pc = "review"
  /\ image_label.kind = "image"
  /\ image_label.file = CurrentFile
  /\ \E f \in PendingLoads : f # CurrentFile

====
